---- MODULE Spec2Model ----
(***************************************************************************)
(* Whisper-as-a-service: the transcription job queue (queue_processor.py), *)
(* the job table it writes (init_db.py) and the status endpoint; the API   *)
(* keys (security.py) and the three routes they guard (api.py).            *)
(*                                                                         *)
(* Every SQL statement is one atomic step; the awaits between statements   *)
(* are where other tasks and processes interleave.                         *)
(***************************************************************************)
EXTENDS Integers, Sequences, FiniteSets, TLC

\* ---------------------------------------------------------------- bounds
\* Number of ids the SERIAL sequence of transcricoes hands out in a run.
MaxJobs == 2
\* Last value of the clock; one tick is the resolution of a TIMESTAMP.
MaxClock == 1
\* Ticks in one clock second (strftime's %S keeps whole seconds only).
TicksPerSecond == 1

\* ------------------------------------------------------------- SQL values
\* SQL NULL in a TIMESTAMP or INTEGER column.
NoTime == -1
\* SQL NULL in a TEXT column.
NullText == "<NULL>"
\* A key the response dictionary does not hold.
Absent == "<absent>"

\* Processes that run the application; each has its own `model` global and
\* its own processar_fila task.
Procs == {1, 2}

VARIABLES
    table,    \* the constraints the transcricoes table of the database carries
    jobs,     \* the rows of transcricoes: id -> row
    nextId,   \* next value of the SERIAL sequence behind transcricoes.id
    files,    \* names of the files present in UPLOAD_DIR
    now,      \* the clock (datetime.now() and the database's now())
    model,    \* per process: the module-level `model` global
    wpc,      \* per process: where its processar_fila task stands
    cur,      \* per process: transcricao id the task is working on (0: none)
    resp,     \* the response of the API operation of the last step, if it was
              \* one, or what the checks of the worker's last step found
    keys,     \* the rows of api_keys: id -> row
    req,      \* per request in flight: where its handler stands
    temp,     \* the temporary audio files on disk: <<request, state of the file>>
    attempt,  \* per process: current_attempt of the inicializar_modelo in progress
    kresp     \* what the key operation or route of the last step answered, if any

vars ==
    <<table, jobs, nextId, files, now, model, wpc, cur, resp, keys, req, temp,
      attempt, kresp>>

\* ------------------------------------------------------------ the table
\* The two constraints of init_db.py's CREATE TABLE that a statement of
\* queue_processor.py can run into.
InitDbConstraints == {"nome_arquivo NOT NULL", "status CHECK"}

\* CREATE TABLE IF NOT EXISTS: the table carries both constraints when
\* init_db.py created it; a table that was there before is left as it was
\* and may lack either. `table` is the set of them the live table carries.
Tables == SUBSET InitDbConstraints

\* status TEXT CHECK (status IN (...)): the values the table accepts.
StatusCheck(t) ==
    IF "status CHECK" \in t
    THEN {"waiting", "processing", "error", "concluido"}
    ELSE {"waiting", "processing", "error", "concluido", "done"}

\* Columns declared NOT NULL that have no DEFAULT.
NotNullColumns(t) ==
    IF "nome_arquivo NOT NULL" \in t
    THEN {"nome_arquivo", "caminho_arquivo"}
    ELSE {"caminho_arquivo"}

\* The columns enqueue_transcription's INSERT gives a value to.
InsertColumns == {"caminho_arquivo", "idioma", "status"}

\* Whether the table takes the INSERT of a row with status st.
InsertAccepted(t, st) ==
    /\ NotNullColumns(t) \subseteq InsertColumns
    /\ st \in StatusCheck(t)

\* Whether the table takes an UPDATE that sets status to st.
UpdateAccepted(t, st) == st \in StatusCheck(t)

\* ------------------------------------------------- steps without a key
\* client_ip = None: get_api_key was called without a request.
NoIp == <<>>

\* The step was not the call of validate_api_key.
NoSel == [called |-> FALSE, key |-> "", ip |-> NoIp, ret |-> "none", id |-> 0]

\* The step answered no key operation.
NoKeyResp == [op |-> "none", sel |-> NoSel]

\* What the steps of the queue leave alone: the key store and the requests
\* on the routes.
ApiUnchanged ==
    /\ kresp' = NoKeyResp
    /\ UNCHANGED <<keys, req, temp, attempt>>

\* ------------------------------------------------------------ submit
\* The file names a caller sends (used for the extension only).
Filenames == {"test.wav", "audio"}

\* os.path.splitext(nome_arquivo)[1] if '.' in nome_arquivo else '.audio'
Extensao(nome) == IF nome = "test.wav" THEN ".wav" ELSE ".audio"

\* strftime("%Y%m%d%H%M%S"): the clock cut to whole seconds.
Timestamp(t) == t \div TicksPerSecond

\* os.path.join(UPLOAD_DIR, f"{timestamp}{extensao}")
CaminhoArquivo(t, nome) == <<Timestamp(t), Extensao(nome)>>

\* The row INSERT ... VALUES ($1, $2, 'waiting') creates.
NewRow(caminho, idioma, t) ==
    [caminho_arquivo |-> caminho, idioma |-> idioma, status |-> "waiting",
     data_envio |-> t, data_processamento |-> NoTime,
     duracao |-> NoTime, texto |-> NullText]

NoResp == [op |-> "none", kind |-> "none", id |-> 0, status |-> "none", texto |-> Absent]

\* salvar_arquivo_audio, then the INSERT.
EnqueueTranscription(nome, idioma) ==
    /\ nextId <= MaxJobs
    /\ LET caminho == CaminhoArquivo(now, nome) IN
       /\ files' = files \cup {caminho}
       /\ nextId' = nextId + 1
       /\ IF InsertAccepted(table, "waiting")
          THEN /\ jobs' = jobs @@ (nextId :> NewRow(caminho, idioma, now))
               /\ resp' = [op |-> "submit", kind |-> "ok", id |-> nextId,
                           status |-> "waiting", texto |-> Absent]
          ELSE /\ jobs' = jobs
               /\ resp' = [op |-> "submit", kind |-> "error", id |-> 0,
                           status |-> "none", texto |-> Absent]
    /\ UNCHANGED <<table, now, model, wpc, cur>>

\* Time passes.
Tick ==
    /\ now < MaxClock
    /\ now' = now + 1
    /\ resp' = NoResp
    /\ UNCHANGED <<table, jobs, nextId, files, model, wpc, cur>>
    /\ ApiUnchanged

\* ------------------------------------------------------------ status
\* The dictionary get_transcription_status builds from the row: texto is
\* included only if the status is 'done'.
Resposta(i, row) ==
    [op |-> "status", kind |-> "ok", id |-> i, status |-> row.status,
     texto |-> IF row.status = "done" THEN row.texto ELSE Absent]

\* Mutant of StatusResult: an id without a row is answered with an empty
\* summary instead of NotFound.
StatusResultDefault(js, i) ==
    IF i \in DOMAIN js
    THEN Resposta(i, js[i])
    ELSE [op |-> "status", kind |-> "ok", id |-> i, status |-> "waiting",
          texto |-> Absent]

\* SELECT ... WHERE id = $1; no row raises ValueError, which the route
\* turns into a 404.
StatusResult(js, i) ==
    IF i \in DOMAIN js
    THEN Resposta(i, js[i])
    ELSE [op |-> "status", kind |-> "NotFound", id |-> i, status |-> "none",
          texto |-> Absent]

GetTranscriptionStatus(i) ==
    /\ resp' = StatusResult(jobs, i)
    /\ UNCHANGED <<table, jobs, nextId, files, now, model, wpc, cur>>

\* ------------------------------------------------------------ the worker
\* Rows whose status is 'waiting'.
Waiting(js) == {j \in DOMAIN js : js[j].status = "waiting"}

\* Mutant of NextWaiting: a failed row at the head keeps the queue blocked.
NextWaitingBlocked(js) ==
    IF \E i \in DOMAIN js : js[i].status = "error"
    THEN {}
    ELSE {j \in Waiting(js) : \A k \in Waiting(js) : js[j].data_envio <= js[k].data_envio}

\* SELECT id FROM transcricoes WHERE status = 'waiting'
\* ORDER BY data_envio ASC LIMIT 1: the rows the statement may return.
\* Nothing orders rows of equal data_envio, so any of them may come first.
NextWaiting(js) ==
    {j \in Waiting(js) : \A k \in Waiting(js) : js[j].data_envio <= js[k].data_envio}

\* processar_fila: the SELECT found a row; processa_transcricao is called.
PollFound(p) ==
    /\ wpc[p] = "poll"
    /\ \E j \in NextWaiting(jobs) :
          /\ cur' = [cur EXCEPT ![p] = j]
          /\ wpc' = [wpc EXCEPT ![p] = "select"]
    /\ resp' = NoResp
    /\ UNCHANGED <<table, jobs, nextId, files, now, model>>
    /\ ApiUnchanged

\* processar_fila: no waiting row; asyncio.sleep(5).
PollEmpty(p) ==
    /\ wpc[p] = "poll"
    /\ NextWaiting(jobs) = {}
    /\ wpc' = [wpc EXCEPT ![p] = "sleep5"]
    /\ resp' = NoResp
    /\ UNCHANGED <<table, jobs, nextId, files, now, model, cur>>
    /\ ApiUnchanged

\* SELECT ... WHERE id = $1 AND status = 'waiting': whether a row comes back.
StillWaiting(js, j) == j \in DOMAIN js /\ js[j].status = "waiting"

\* processa_transcricao: the SELECT; without a row it returns, and
\* processar_fila sleeps one second.
SelectRow(p) ==
    /\ wpc[p] = "select"
    /\ wpc' = [wpc EXCEPT ![p] =
                 IF StillWaiting(jobs, cur[p]) THEN "mark" ELSE "sleep1"]
    /\ resp' = NoResp
    /\ UNCHANGED <<table, jobs, nextId, files, now, model, cur>>
    /\ ApiUnchanged

\* Mutant of ProcessingRow: the claim leaves data_processamento as it was.
ProcessingRowUnstamped(row, t) == [row EXCEPT !.status = "processing"]

\* UPDATE ... SET status = 'processing', data_processamento = NOW()
\* WHERE id = $1
ProcessingRow(row, t) ==
    [row EXCEPT !.status = "processing", !.data_processamento = t]

MarkProcessing(p) ==
    /\ wpc[p] = "mark"
    /\ UpdateAccepted(table, "processing")
    /\ jobs' = [jobs EXCEPT ![cur[p]] = ProcessingRow(@, now)]
    /\ wpc' = [wpc EXCEPT ![p] = "prepare"]
    /\ resp' = NoResp
    /\ UNCHANGED <<table, nextId, files, now, model, cur>>
    /\ ApiUnchanged

\* Mutant of ErroTexto: the message alone, without the prefix.
ErroTextoBare(msg) == msg

\* f"Erro: {str(e)}"
ErroTexto(msg) == "Erro: " \o msg

\* Mutant of ErrorRow: a failed job is put back in the queue.
ErrorRowRequeue(row, msg) ==
    [row EXCEPT !.status = "waiting", !.texto = ErroTexto(msg)]

\* UPDATE ... SET status = 'error', texto = $1 WHERE id = $2
ErrorRow(row, msg) == [row EXCEPT !.status = "error", !.texto = ErroTexto(msg)]

\* UPDATE ... SET status = 'done', texto = $1, idioma = $2, duracao = $3
\* WHERE id = $4
DoneRow(row, r) ==
    [row EXCEPT !.status = "done", !.texto = r.text, !.idioma = r.language,
                !.duracao = r.duration]

\* Mutant of AfterJobError: the exception of a job ends the loop.
AfterJobErrorExit == "stopped"

\* Where processar_fila goes when processa_transcricao raised: it logs the
\* error and sleeps three seconds inside the loop.
AfterJobError == "sleep3"

\* The except branch of processa_transcricao: the error UPDATE, then the
\* exception goes up to processar_fila.
RecordError(p, msg) ==
    /\ UpdateAccepted(table, "error")
    /\ jobs' = [jobs EXCEPT ![cur[p]] = ErrorRow(@, msg)]
    /\ wpc' = [wpc EXCEPT ![p] = AfterJobError]

\* What inicializar_modelo leaves in `model` when called with none loaded.
LoadOutcomes == {"loaded", "none", "raise"}

\* No exception was raised.
NoException == "<no exception>"

\* Mutant of PrepareError: the inference starts without looking for ffmpeg
\* and for the audio file.
PrepareErrorUnchecked(load, m, ffmpeg, exists) ==
    IF load = "raise" THEN "load failed"
    ELSE IF m = "none" THEN "Falha ao inicializar o modelo Whisper"
    ELSE NoException

\* The checks of processa_transcricao before the inference, in the order of
\* the code: the model, shutil.which("ffmpeg"), os.path.exists of the audio
\* file. The message of the first exception raised, if any.
PrepareError(load, m, ffmpeg, exists) ==
    IF load = "raise" THEN "load failed"
    ELSE IF m = "none" THEN "Falha ao inicializar o modelo Whisper"
    ELSE IF ~ffmpeg THEN "ffmpeg nao encontrado no sistema"
    ELSE IF ~exists THEN "Arquivo nao encontrado"
    ELSE NoException

\* What the worker p found on the machine when it prepared a job: whether
\* ffmpeg is installed and whether the audio file is on disk.
Found(p, ffmpeg, exists) ==
    [op |-> "prepare", kind |-> "found", id |-> cur[p], status |-> "none",
     texto |-> Absent, proc |-> p, ffmpeg |-> ffmpeg, exists |-> exists]

\* processa_transcricao from the model check to the start of the inference.
Prepare(p) ==
    /\ wpc[p] = "prepare"
    /\ \E load \in (IF model[p] = "none" THEN LoadOutcomes ELSE {"kept"}),
          ffmpeg \in BOOLEAN,
          exists \in (IF jobs[cur[p]].caminho_arquivo \in files THEN BOOLEAN ELSE {FALSE}) :
          LET m == IF load = "loaded" THEN "loaded" ELSE model[p]
              e == PrepareError(load, m, ffmpeg, exists) IN
          /\ model' = [model EXCEPT ![p] = m]
          /\ IF e /= NoException
             THEN RecordError(p, e)
             ELSE /\ wpc' = [wpc EXCEPT ![p] = "inferring"]
                  /\ jobs' = jobs
          /\ resp' = Found(p, ffmpeg, exists)
    /\ UNCHANGED <<table, nextId, files, now, cur>>
    /\ ApiUnchanged

\* What model.transcribe does: it returns a dictionary, returns something
\* that is empty or no dictionary, or raises (str(e) may be empty).
EngineOutcomes ==
    {[kind |-> "ok", text |-> "hello", language |-> "en", duration |-> 0, msg |-> ""],
     [kind |-> "invalid", text |-> NullText, language |-> NullText, duration |-> 0, msg |-> ""],
     [kind |-> "raise", text |-> NullText, language |-> NullText, duration |-> 0, msg |-> ""],
     [kind |-> "raise", text |-> NullText, language |-> NullText, duration |-> 0,
      msg |-> "decode failed"]}

\* processa_transcricao from the return of model.transcribe: the result is
\* validated and written with status 'done'; an exception, the table's
\* refusal of the UPDATE included, goes to the except branch.
Transcribed(p) ==
    /\ wpc[p] = "inferring"
    /\ \E o \in EngineOutcomes :
          IF o.kind = "raise"
          THEN RecordError(p, o.msg)
          ELSE IF o.kind = "invalid"
          THEN RecordError(p, "Resultado da transcricao invalido ou vazio")
          ELSE IF ~UpdateAccepted(table, "done")
          THEN RecordError(p, "violates check constraint")
          ELSE /\ jobs' = [jobs EXCEPT ![cur[p]] = DoneRow(@, o)]
               /\ wpc' = [wpc EXCEPT ![p] = "sleep1"]
    /\ resp' = NoResp
    /\ UNCHANGED <<table, nextId, files, now, model, cur>>
    /\ ApiUnchanged

\* An asyncio.sleep of the loop ends; the loop starts over.
Wake(p) ==
    /\ wpc[p] \in {"sleep1", "sleep3", "sleep5", "sleep10"}
    /\ wpc' = [wpc EXCEPT ![p] = "poll"]
    /\ cur' = [cur EXCEPT ![p] = 0]
    /\ resp' = NoResp
    /\ UNCHANGED <<table, jobs, nextId, files, now, model>>
    /\ ApiUnchanged

Worker(p) ==
    \/ PollFound(p)
    \/ PollEmpty(p)
    \/ SelectRow(p)
    \/ MarkProcessing(p)
    \/ Prepare(p)
    \/ Transcribed(p)
    \/ Wake(p)

\* Requests of the callers: uploads of test.wav and status polls.
Client ==
    \/ EnqueueTranscription("test.wav", "pt") /\ ApiUnchanged
    \/ \E i \in 1..(MaxJobs + 1) : GetTranscriptionStatus(i) /\ ApiUnchanged
    \/ Tick

\* ---------------------------------------------------------- model load
\* max_attempts of inicializar_modelo.
MaxAttempts == 3

\* Mutant of KeepTrying: the loop goes round once more.
KeepTryingOneMore(a) == a <= MaxAttempts

\* while current_attempt < max_attempts
KeepTrying(a) == a < MaxAttempts

\* Where a worker is inside inicializar_modelo: at the head of its loop or in
\* the sleep between two attempts, called at the start of processar_fila
\* ("load") or from its except branch ("reload").
LoadPcs == {"load", "load_wait", "reload", "reload_wait"}

LoadHead(pc) == IF pc \in {"load", "load_wait"} THEN "load" ELSE "reload"

LoadWait(pc) == IF pc \in {"load", "load_wait"} THEN "load_wait" ELSE "reload_wait"

\* Mutant of AfterReloadFailure: the exception of the reload leaves the loop.
AfterReloadFailureRaise == "dead"

\* The except branch of processar_fila catches the exception of its call of
\* inicializar_modelo, logs it and goes on to asyncio.sleep(10).
AfterReloadFailure == "sleep10"

\* Where the caller goes when inicializar_modelo returns.
AfterLoadReturn(pc) == IF LoadHead(pc) = "load" THEN "poll" ELSE "sleep10"

\* Where the caller goes when inicializar_modelo raises: nothing catches the
\* exception of the call at the start of processar_fila, whose task ends.
AfterLoadRaise(pc) == IF LoadHead(pc) = "load" THEN "dead" ELSE AfterReloadFailure

\* What whisper.load_model does in one attempt.
AttemptOutcomes == {"model", "null", "raise"}

\* The frame of a step of the load or of a failing statement: the table,
\* the files, the keys and the requests stay.
LoadFrame ==
    /\ resp' = NoResp
    /\ kresp' = NoKeyResp
    /\ UNCHANGED <<table, nextId, files, now, keys, req, temp>>

\* One round of the loop of inicializar_modelo: the attempt is counted, the
\* result of load_model is assigned to the global and returned if it is a
\* model; an exception is followed by a sleep, or raised if the attempt was
\* the last.
LoadAttempt(p) ==
    /\ wpc[p] \in {"load", "reload"}
    /\ KeepTrying(attempt[p])
    /\ \E o \in AttemptOutcomes :
          LET a == attempt[p] + 1 IN
          IF o = "model"
          THEN /\ model' = [model EXCEPT ![p] = "loaded"]
               /\ wpc' = [wpc EXCEPT ![p] = AfterLoadReturn(@)]
               /\ attempt' = [attempt EXCEPT ![p] = 0]
          ELSE IF o = "null"
          THEN /\ model' = [model EXCEPT ![p] = "none"]
               /\ wpc' = wpc
               /\ attempt' = [attempt EXCEPT ![p] = a]
          ELSE /\ model' = model
               /\ IF a < MaxAttempts
                  THEN /\ wpc' = [wpc EXCEPT ![p] = LoadWait(@)]
                       /\ attempt' = [attempt EXCEPT ![p] = a]
                  ELSE /\ wpc' = [wpc EXCEPT ![p] = AfterLoadRaise(@)]
                       /\ attempt' = [attempt EXCEPT ![p] = 0]
    /\ UNCHANGED <<jobs, cur>>
    /\ LoadFrame

\* asyncio.sleep(5 * current_attempt) ends.
LoadBackoff(p) ==
    /\ wpc[p] \in {"load_wait", "reload_wait"}
    /\ wpc' = [wpc EXCEPT ![p] = LoadHead(@)]
    /\ UNCHANGED <<jobs, cur, model, attempt>>
    /\ LoadFrame

\* The loop ends with its condition false: return model, whatever it is.
LoadExhausted(p) ==
    /\ wpc[p] \in {"load", "reload"}
    /\ ~KeepTrying(attempt[p])
    /\ wpc' = [wpc EXCEPT ![p] = AfterLoadReturn(@)]
    /\ attempt' = [attempt EXCEPT ![p] = 0]
    /\ UNCHANGED <<jobs, cur, model>>
    /\ LoadFrame

Load(p) ==
    \/ LoadAttempt(p)
    \/ LoadBackoff(p)
    \/ LoadExhausted(p)

\* -------------------------------------------------------- store failures
\* The except branch of processar_fila: model = None, then the reload.
QueueError(p) ==
    /\ model' = [model EXCEPT ![p] = "none"]
    /\ attempt' = [attempt EXCEPT ![p] = 0]
    /\ wpc' = [wpc EXCEPT ![p] = "reload"]
    /\ cur' = [cur EXCEPT ![p] = 0]

\* get_db_conn or the SELECT of processar_fila raises.
PollFault(p) ==
    /\ wpc[p] = "poll"
    /\ QueueError(p)
    /\ jobs' = jobs
    /\ LoadFrame

\* conn.close() of processar_fila raises, after the sleep that follows a
\* job or an empty queue.
CloseFault(p) ==
    /\ wpc[p] \in {"sleep1", "sleep3", "sleep5"}
    /\ QueueError(p)
    /\ jobs' = jobs
    /\ LoadFrame

\* get_db_conn, the SELECT or the UPDATE to 'processing' of
\* processa_transcricao raises: the row stays as it is and the exception
\* is caught in processar_fila.
ClaimFault(p) ==
    /\ wpc[p] \in {"select", "mark"}
    /\ wpc' = [wpc EXCEPT ![p] = AfterJobError]
    /\ UNCHANGED <<jobs, cur, model, attempt>>
    /\ LoadFrame

\* The UPDATE to 'error' in the except branch of processa_transcricao
\* raises, after a failed check, a failed inference or a failed UPDATE to
\* 'done': no status is written and the new exception goes to processar_fila.
RecordFault(p) ==
    /\ wpc[p] \in {"prepare", "inferring"}
    /\ wpc' = [wpc EXCEPT ![p] = AfterJobError]
    /\ UNCHANGED <<jobs, cur, model, attempt>>
    /\ LoadFrame

\* conn.close() of processa_transcricao raises after the UPDATE to 'done'.
DoneCloseFault(p) ==
    /\ wpc[p] = "inferring"
    /\ UpdateAccepted(table, "done")
    /\ \E o \in {e \in EngineOutcomes : e.kind = "ok"} :
          jobs' = [jobs EXCEPT ![cur[p]] = DoneRow(@, o)]
    /\ wpc' = [wpc EXCEPT ![p] = AfterJobError]
    /\ UNCHANGED <<cur, model, attempt>>
    /\ LoadFrame

Fault(p) ==
    \/ PollFault(p)
    \/ CloseFault(p)
    \/ ClaimFault(p)
    \/ RecordFault(p)
    \/ DoneCloseFault(p)

\* ------------------------------------------------------------ api keys
\* Successful validations in a run (cap on the sum of use_count).
MaxUses == 2
\* Last value of the clock in the runs of the key store.
MaxKeyClock == 2
\* Ticks in one day of validity (timedelta(days=...)).
TicksPerDay == 1

\* Request slots: handlers the event loop runs at the same time.
Reqs == {1, 2}

\* Values secrets.token_hex(32) returns in a run.
Tokens == {"t1"}

\* What a caller sends as X-API-Key: a token that may have been issued, one
\* that never is, or nothing.
PresentedKeys == Tokens \cup {"t0", ""}

\* hashlib.sha256(key.encode()).hexdigest(): one digest per key.
HashApiKey(key) == <<"sha256", key>>

\* request.client.host: 10.0.0.5 and 10.0.1.5.
ClientIps == {<<10, 0, 0, 5>>, <<10, 0, 1, 5>>}

\* An entry of allowed_ips without "/": a single address.
NoPrefix == -1

\* allowed_ips as given to generate_api_key: None, ["10.0.0.0/24"] and
\* ["10.0.1.5"].
AllowedIpLists ==
    {<<>>,
     <<[addr |-> <<10, 0, 0, 0>>, prefix |-> 24]>>,
     <<[addr |-> <<10, 0, 1, 5>>, prefix |-> NoPrefix]>>}

\* expires_days as given to generate_api_key: 0 and 1.
ExpiresDays == {0, 1}

\* An IPv4 address as the integer ipaddress compares.
IpInt(a) == ((a[1] * 256 + a[2]) * 256 + a[3]) * 256 + a[4]

\* client_ip_obj in ip_network(allowed_ip, strict=False): the address and
\* the network agree on the first `prefix` bits.
InNetwork(ip, e) ==
    IpInt(ip) \div (2 ^ (32 - e.prefix)) = IpInt(e.addr) \div (2 ^ (32 - e.prefix))

\* The loop over allowed_ips: an entry with "/" is a network, any other is
\* compared with client_ip as a string.
IpAllowed(ip, allowed) ==
    \E i \in DOMAIN allowed :
        IF allowed[i].prefix /= NoPrefix
        THEN InNetwork(ip, allowed[i])
        ELSE ip = allowed[i].addr

\* datetime.now() + timedelta(days=expires_days) if expires_days else None
ExpiresAt(t, days) == IF days /= 0 THEN t + days * TicksPerDay ELSE NoTime

\* The row INSERT INTO api_keys (key_hash, name, expires_at, allowed_ips)
\* creates; is_active defaults to TRUE and use_count to 0.
NewKeyRow(key, expires, allowed) ==
    [key_hash |-> HashApiKey(key), expires_at |-> expires, is_active |-> TRUE,
     last_used_at |-> NoTime, use_count |-> 0, allowed_ips |-> allowed]

\* A request slot no handler runs in.
Idle == [pc |-> "idle", op |-> "none", id |-> 0]

\* What the steps of the key store leave alone.
QueueUnchanged ==
    /\ resp' = NoResp
    /\ UNCHANGED <<table, jobs, nextId, files, model, wpc, cur, temp, attempt>>

\* generate_api_key: a fresh token, its hash stored in a new row.
GenerateApiKey(days, allowed) ==
    /\ \E key \in Tokens :
          /\ \A i \in DOMAIN keys : keys[i].key_hash /= HashApiKey(key)
          /\ keys' = Append(keys, NewKeyRow(key, ExpiresAt(now, days), allowed))
          /\ kresp' = [op |-> "generate", id |-> Len(keys) + 1, api_key |-> key,
                      sel |-> NoSel]
    /\ QueueUnchanged
    /\ UNCHANGED <<now, req>>

\* Time passes in the runs of the key store.
TickKeys ==
    /\ now < MaxKeyClock
    /\ now' = now + 1
    /\ kresp' = NoKeyResp
    /\ QueueUnchanged
    /\ UNCHANGED <<keys, req>>

\* validate_api_key from its start to the statement after the SELECT:
\* which return, or which UPDATE, the row read leads to.
ValidateOutcome(ks, key, ip, t) ==
    IF key = ""
    THEN [ret |-> "no key", id |-> 0]
    ELSE LET ids == {i \in DOMAIN ks : ks[i].key_hash = HashApiKey(key)} IN
         IF ids = {}
         THEN [ret |-> "no row", id |-> 0]
         ELSE LET i == CHOOSE i \in ids : TRUE
                  row == ks[i] IN
              IF ~row.is_active
              THEN [ret |-> "inactive", id |-> i]
              ELSE IF row.expires_at /= NoTime /\ t > row.expires_at
              THEN [ret |-> "expired", id |-> i]
              ELSE IF /\ (row.allowed_ips /= <<>> /\ ip /= NoIp)
                      /\ ~IpAllowed(ip, row.allowed_ips)
              THEN [ret |-> "ip", id |-> i]
              ELSE [ret |-> "ok", id |-> i]

\* Mutant of Unauthorized: the detail tells why the key was refused.
UnauthorizedTelling(sel) ==
    [op |-> "auth", kind |-> "HTTPException", code |-> 401,
     detail |-> "API Key: " \o sel.ret, sel |-> sel]

\* get_api_key when validate_api_key returned None; sel is what the SELECT
\* of this step was given and found, if the step held one.
Unauthorized(sel) ==
    [op |-> "auth", kind |-> "HTTPException", code |-> 401,
     detail |-> "API Key invalida ou expirada", sel |-> sel]

\* get_api_key when validate_api_key returned the key's dictionary.
Authorized(id) ==
    [op |-> "auth", kind |-> "return", code |-> 200, detail |-> "", id |-> id,
     sel |-> NoSel]

\* Validations that have read their row and not yet counted their use.
Counting == {q \in Reqs : req[q].pc = "stats"}

RECURSIVE SumUses(_, _)
\* The sum of use_count over the first n rows.
SumUses(ks, n) == IF n = 0 THEN 0 ELSE ks[n].use_count + SumUses(ks, n - 1)

\* get_api_key -> validate_api_key, up to and including the SELECT and the
\* checks on the row it returned.
ValidateSelect(r, op, key, ip) ==
    /\ req[r] = Idle
    /\ LET o == ValidateOutcome(keys, key, ip, now)
           sel == [called |-> TRUE, key |-> key, ip |-> ip, ret |-> o.ret, id |-> o.id] IN
       IF o.ret = "ok"
       THEN /\ SumUses(keys, Len(keys)) + Cardinality(Counting) < MaxUses
            /\ req' = [req EXCEPT ![r] = [pc |-> "stats", op |-> op, id |-> o.id]]
            /\ kresp' = [op |-> "select", sel |-> sel]
       ELSE IF o.ret = "expired"
       THEN /\ req' = [req EXCEPT ![r] = [pc |-> "deactivate", op |-> op, id |-> o.id]]
            /\ kresp' = [op |-> "select", sel |-> sel]
       ELSE /\ req' = req
            /\ kresp' = Unauthorized(sel)
    /\ QueueUnchanged
    /\ UNCHANGED <<now, keys>>

\* Mutant of InactiveRow: the UPDATE leaves is_active as it is.
InactiveRowKept(row) == row

\* UPDATE api_keys SET is_active = FALSE WHERE id = $1
InactiveRow(row) == [row EXCEPT !.is_active = FALSE]

\* The branch of an expired key: the UPDATE, then return None.
ValidateDeactivate(r) ==
    /\ req[r].pc = "deactivate"
    /\ keys' = [keys EXCEPT ![req[r].id] = InactiveRow(@)]
    /\ req' = [req EXCEPT ![r] = Idle]
    /\ kresp' = Unauthorized([NoSel EXCEPT !.ret = "expired", !.id = req[r].id])
    /\ QueueUnchanged
    /\ UNCHANGED now

\* Mutant of UsedRow: the use is dated and not counted.
UsedRowUncounted(row, t) == [row EXCEPT !.last_used_at = t]

\* Mutant of UsedRow: a use makes the key active again.
UsedRowReactivated(row, t) ==
    [row EXCEPT !.last_used_at = t, !.use_count = @ + 1, !.is_active = TRUE]

\* UPDATE api_keys SET last_used_at = NOW(), use_count = use_count + 1
\* WHERE id = $1
UsedRow(row, t) == [row EXCEPT !.last_used_at = t, !.use_count = @ + 1]

\* The UPDATE of the usage statistics, then the dictionary is returned and
\* get_api_key returns the key: to its caller, or to the route whose
\* dependency it is, which starts.
ValidateStats(r) ==
    /\ req[r].pc = "stats"
    /\ keys' = [keys EXCEPT ![req[r].id] = UsedRow(@, now)]
    /\ req' = [req EXCEPT ![r] = IF req[r].op = "auth"
                                 THEN Idle
                                 ELSE [@ EXCEPT !.pc = "handler"]]
    /\ kresp' = Authorized(req[r].id)
    /\ QueueUnchanged
    /\ UNCHANGED now

\* The command tag of an UPDATE that matched n rows.
CommandTag(n) == <<"UPDATE", n>>

\* Mutant of RevokeResult: every UPDATE that ran counts as a revocation.
RevokeResultAny(tag) == tag[1] = "UPDATE"

\* "UPDATE 1" in result
RevokeResult(tag) == tag = <<"UPDATE", 1>>

\* revoke_api_key: the UPDATE on the rows with this id, whatever their
\* is_active is.
RevokeApiKey(id) ==
    /\ LET matched == {i \in DOMAIN keys : i = id} IN
       /\ keys' = [i \in DOMAIN keys |->
                      IF i \in matched THEN InactiveRow(keys[i]) ELSE keys[i]]
       /\ kresp' = [op |-> "revoke", id |-> id, sel |-> NoSel,
                    result |-> RevokeResult(CommandTag(Cardinality(matched)))]
    /\ QueueUnchanged
    /\ UNCHANGED <<now, req>>

\* get_api_keys: the rows, or the active rows, as dictionaries.
GetApiKeys(active_only) ==
    /\ kresp' = [op |-> "list", sel |-> NoSel,
                 rows |-> {[id |-> i, is_active |-> keys[i].is_active,
                            use_count |-> keys[i].use_count,
                            last_used_at |-> keys[i].last_used_at] :
                           i \in {k \in DOMAIN keys :
                                     active_only => keys[k].is_active}}]
    /\ QueueUnchanged
    /\ UNCHANGED <<now, keys, req>>

\* ------------------------------------------------------------ the routes
\* POST /transcribe/async, GET /transcribe/status/{id}, POST /transcribe.
Routes == {"async", "status", "sync"}

\* validate_api_key_dependency for an empty X-API-Key.
NotProvided ==
    [op |-> "auth", kind |-> "HTTPException", code |-> 401,
     detail |-> "API Key nao fornecida", sel |-> NoSel]

\* A request arrives on a route: its dependency runs first, and
\* get_api_key is given the request, so the caller's address.
RouteRequest(r, op, key, ip) ==
    /\ req[r] = Idle
    /\ IF key = ""
       THEN /\ kresp' = NotProvided
            /\ QueueUnchanged
            /\ UNCHANGED <<now, keys, req>>
       ELSE ValidateSelect(r, op, key, ip)

\* Mutant of RouteReady: the route is declared without the dependency.
RouteReadyOpen(r, op) == req[r].pc = "handler" => req[r].op = op

\* api_key: str = Depends(validate_api_key_dependency): the body of the
\* route runs with what the dependency returned.
RouteReady(r, op) == req[r].pc = "handler" /\ req[r].op = op

\* An HTTPException a route raises.
RouteError(op, code) ==
    [op |-> op, kind |-> "HTTPException", code |-> code, sel |-> NoSel]

\* transcribe_async: the body is read and checked, ffmpeg is looked for,
\* enqueue_transcription is called.
RouteAsync(r) ==
    /\ RouteReady(r, "async")
    /\ req' = [req EXCEPT ![r] = Idle]
    /\ \E body \in {"ok", "bad"}, ffmpeg \in BOOLEAN :
          IF body = "bad" \/ ~ffmpeg
          THEN /\ kresp' = RouteError("async", IF body = "bad" THEN 400 ELSE 500)
               /\ resp' = NoResp
               /\ UNCHANGED <<table, jobs, nextId, files, now, model, wpc, cur>>
          ELSE /\ EnqueueTranscription("test.wav", "pt")
               /\ kresp' = NoKeyResp
    /\ UNCHANGED <<keys, temp, attempt>>

\* get_transcribe_status
RouteStatus(r) ==
    /\ RouteReady(r, "status")
    /\ req' = [req EXCEPT ![r] = Idle]
    /\ \E i \in 1..(MaxJobs + 1) : GetTranscriptionStatus(i)
    /\ kresp' = NoKeyResp
    /\ UNCHANGED <<keys, temp, attempt>>

\* Mutant of SyncRows: the finished transcription is kept as a row.
SyncRowsLogged(js, o) ==
    IF o.kind = "ok"
    THEN js @@ ((Cardinality(DOMAIN js) + 1)
                   :> DoneRow(NewRow(<<0, ".tmp">>, "pt", 0), o))
    ELSE js

\* execute_sync_transcription holds no statement on transcricoes: the rows
\* after it are the rows before it.
SyncRows(js, o) == js

\* What temp.write(audio_bytes) does to the file NamedTemporaryFile has
\* created with delete=False: it fills it, or raises and leaves it.
WriteOutcomes == {"written", "partial"}

\* transcribe -> execute_sync_transcription up to the start of the
\* inference: the body is checked, the model loaded if there is none,
\* ffmpeg looked for, the audio written to a temporary file, the lambda
\* that calls model.transcribe handed to the executor. The try whose
\* finally removes the file starts after the write.
SyncStart(r) ==
    /\ RouteReady(r, "sync")
    /\ \E body \in {"ok", "bad"}, ffmpeg \in BOOLEAN, write \in WriteOutcomes,
          load \in (IF model[1] = "none" THEN LoadOutcomes ELSE {"kept"}) :
          IF body = "bad"
          THEN /\ kresp' = RouteError("sync", 400)
               /\ req' = [req EXCEPT ![r] = Idle]
               /\ UNCHANGED <<model, temp>>
          ELSE /\ model' = [model EXCEPT ![1] = IF load = "loaded" THEN "loaded" ELSE @]
               /\ IF load = "raise" \/ ~ffmpeg
                  THEN /\ kresp' = RouteError("sync", 500)
                       /\ req' = [req EXCEPT ![r] = Idle]
                       /\ temp' = temp
                  ELSE /\ temp' = temp \cup {<<r, write>>}
                       /\ IF write = "partial"
                          THEN /\ kresp' = RouteError("sync", 500)
                               /\ req' = [req EXCEPT ![r] = Idle]
                          ELSE /\ kresp' = NoKeyResp
                               /\ req' = [req EXCEPT ![r] = [@ EXCEPT !.pc = "queued"]]
    /\ resp' = NoResp
    /\ UNCHANGED <<table, jobs, nextId, files, now, wpc, cur, keys, attempt>>

\* Where a request is between the write of its temporary file and its
\* answer: its lambda waits for a thread of the executor, runs
\* model.transcribe, or found no model in the global.
SyncPcs == {"queued", "inferring", "no_model"}

\* A thread of the executor starts the lambda of execute_sync_transcription,
\* which reads the global `model` at this moment, not when the request
\* tested it: None has no transcribe and the lambda raises.
SyncRun(r) ==
    /\ req[r].pc = "queued"
    /\ req' = [req EXCEPT ![r] =
                 [@ EXCEPT !.pc = IF model[1] = "none" THEN "no_model" ELSE "inferring"]]
    /\ kresp' = NoKeyResp
    /\ resp' = NoResp
    /\ UNCHANGED <<table, jobs, nextId, files, now, model, wpc, cur, keys, temp, attempt>>

\* The dictionary execute_sync_transcription returns.
SyncResult(o) ==
    [op |-> "sync", kind |-> "return", code |-> 200, sel |-> NoSel,
     texto |-> o.text, idioma_detectado |-> o.language, duracao |-> o.duration]

\* execute_sync_transcription from the return of model.transcribe: the
\* dictionary is built, or the exception goes up to the route; the
\* temporary file is removed either way.
SyncFinish(r) ==
    /\ req[r].pc \in {"inferring", "no_model"}
    /\ \E o \in (IF req[r].pc = "no_model"
                 THEN {e \in EngineOutcomes : e.kind = "raise"}
                 ELSE EngineOutcomes) :
          /\ kresp' = IF o.kind = "ok" THEN SyncResult(o) ELSE RouteError("sync", 500)
          /\ jobs' = SyncRows(jobs, o)
    /\ temp' = temp \ {<<r, "written">>}
    /\ req' = [req EXCEPT ![r] = Idle]
    /\ resp' = NoResp
    /\ UNCHANGED <<table, nextId, files, now, model, wpc, cur, keys, attempt>>

\* --------------------------------------------------------------- Init
Init ==
    /\ table \in Tables
    /\ jobs = <<>>
    /\ nextId = 1
    /\ files = {}
    /\ now = 0
    /\ model = [p \in Procs |-> "loaded"]
    /\ wpc = [p \in Procs |-> "poll"]
    /\ cur = [p \in Procs |-> 0]
    /\ resp = NoResp
    /\ keys = <<>>
    /\ req = [r \in Reqs |-> Idle]
    /\ temp = {}
    /\ attempt = [p \in Procs |-> 0]
    /\ kresp = NoKeyResp

\* One process: the deployment the application is written for.
Next == Client \/ Worker(1)

Spec == Init /\ [][Next]_vars

\* Two processes on the same database.
NextTwo ==
    \/ EnqueueTranscription("test.wav", "pt") /\ ApiUnchanged
    \/ Tick
    \/ \E p \in Procs : Worker(p)

SpecTwo == Init /\ [][NextTwo]_vars

\* Uploads alone, under every file name.
NextUpload ==
    \/ \E nome \in Filenames : EnqueueTranscription(nome, "pt") /\ ApiUnchanged
    \/ \E i \in 1..(MaxJobs + 1) : GetTranscriptionStatus(i) /\ ApiUnchanged
    \/ Tick

SpecUpload == Init /\ [][NextUpload]_vars

\* Uploads, the clock and the worker; status requests write nothing and
\* are left out.
NextLive ==
    \/ EnqueueTranscription("test.wav", "pt") /\ ApiUnchanged
    \/ Tick
    \/ Worker(1)

\* The event loop runs a task that can run: a sleep ends, a statement and
\* an inference return.
LiveSpec == Init /\ [][NextLive]_vars /\ WF_vars(Worker(1))

\* The key store: keys are issued, presented with or without a request,
\* revoked and listed while the clock runs.
NextKeys ==
    \/ \E days \in ExpiresDays, allowed \in AllowedIpLists : GenerateApiKey(days, allowed)
    \/ \E r \in Reqs, key \in PresentedKeys, ip \in ClientIps \cup {NoIp} :
          ValidateSelect(r, "auth", key, ip)
    \/ \E r \in Reqs : ValidateDeactivate(r)
    \/ \E r \in Reqs : ValidateStats(r)
    \/ \E id \in 1..(Cardinality(Tokens) + 1) : RevokeApiKey(id)
    \/ \E active_only \in BOOLEAN : GetApiKeys(active_only)
    \/ TickKeys

\* The database as init_db.py creates it.
InitKeys == Init /\ table = InitDbConstraints

SpecKeys == InitKeys /\ [][NextKeys]_vars

\* The service: keys are issued and revoked, requests arrive on the three
\* routes and go through the dependency and then the body of the route,
\* while the worker of the process takes the jobs.
NextApi ==
    \/ GenerateApiKey(0, <<>>)
    \/ \E id \in 1..Cardinality(Tokens) : RevokeApiKey(id)
    \/ \E r \in Reqs, op \in Routes, key \in PresentedKeys, ip \in ClientIps :
          RouteRequest(r, op, key, ip)
    \/ \E r \in Reqs : ValidateStats(r)
    \/ \E r \in Reqs : RouteAsync(r)
    \/ \E r \in Reqs : RouteStatus(r)
    \/ \E r \in Reqs : SyncStart(r)
    \/ \E r \in Reqs : SyncRun(r)
    \/ \E r \in Reqs : SyncFinish(r)
    \/ Worker(1)

\* A database whose transcricoes table takes the rows of the service.
InitApi == Init /\ table = {"status CHECK"}

SpecApi == InitApi /\ [][NextApi]_vars

\* Uploads in the runs of the worker on a store whose statements can fail.
MaxFaultJobs == 2

\* processar_fila is started after the load of the lifespan returned, with
\* a model or with none.
InitFault ==
    /\ table = {}
    /\ jobs = <<>>
    /\ nextId = 1
    /\ files = {}
    /\ now = 0
    /\ model \in {[p \in Procs |-> m] : m \in {"loaded", "none"}}
    /\ wpc = [p \in Procs |-> IF p = 1 THEN "load" ELSE "poll"]
    /\ cur = [p \in Procs |-> 0]
    /\ resp = NoResp
    /\ keys = <<>>
    /\ req = [r \in Reqs |-> Idle]
    /\ temp = {}
    /\ attempt = [p \in Procs |-> 0]
    /\ kresp = NoKeyResp

\* The worker from its start, with the failures of its statements and of
\* the model load.
NextFault ==
    \/ nextId <= MaxFaultJobs /\ EnqueueTranscription("test.wav", "pt") /\ ApiUnchanged
    \/ Worker(1)
    \/ Load(1)
    \/ Fault(1)

SpecFault == InitFault /\ [][NextFault]_vars

\* The event loop runs the worker's task whenever it can run.
LiveFault == SpecFault /\ WF_vars(Worker(1) \/ Load(1) \/ Fault(1))

\* Synchronous requests in the process whose worker runs over a store
\* that can fail: the worker finds the queue empty or its statements raise,
\* and its except branch discards and reloads the model the requests use.
NextSync ==
    \/ GenerateApiKey(0, <<>>)
    \/ \E r \in Reqs, key \in Tokens, ip \in ClientIps : RouteRequest(r, "sync", key, ip)
    \/ \E r \in Reqs : ValidateStats(r)
    \/ \E r \in Reqs : SyncStart(r)
    \/ \E r \in Reqs : SyncRun(r)
    \/ \E r \in Reqs : SyncFinish(r)
    \/ PollEmpty(1)
    \/ Wake(1)
    \/ PollFault(1)
    \/ CloseFault(1)
    \/ Load(1)

SpecSync == InitApi /\ [][NextSync]_vars

\* ==================================================================
\* Properties
\* ==================================================================

\* The status changes a row may go through.
Forward ==
    {<<"waiting", "processing">>, <<"processing", "done">>, <<"processing", "error">>}

\* C1: with the one worker, every step that changes a row of transcricoes
\* moves its status along waiting -> processing -> {done, error}; rows are
\* never removed, a new row starts in waiting, and since no edge leads
\* back, no transition happens twice for an id.
C1_ForwardOnly ==
    [][/\ DOMAIN jobs \subseteq DOMAIN jobs'
       /\ \A j \in DOMAIN jobs' :
             IF j \in DOMAIN jobs
             THEN jobs'[j] /= jobs[j]
                     => <<jobs[j].status, jobs'[j].status>> \in Forward
             ELSE jobs'[j].status = "waiting"]_vars

\* Both terminal states have been reached by jobs of the same run.
C1_Witness ==
    \E j, k \in DOMAIN jobs : jobs[j].status = "done" /\ jobs[k].status = "error"

\* C2: two processes never both stand past the claim (the UPDATE to
\* processing) of the same transcricao id.
PastClaim == {"prepare", "inferring"}

C2_OneClaimer ==
    \A p, q \in Procs :
        (p /= q /\ cur[p] /= 0 /\ cur[p] = cur[q])
            => ~(wpc[p] \in PastClaim /\ wpc[q] \in PastClaim)

\* C3: a step that moves a row from waiting to processing takes the oldest
\* waiting row: every other waiting row has a later data_envio, or the same
\* data_envio and a larger id (it was submitted later).
C3_StrictFifo ==
    [][\A j \in DOMAIN jobs :
          (jobs[j].status = "waiting" /\ jobs'[j].status = "processing")
             => \A k \in Waiting(jobs) \ {j} :
                   \/ jobs[j].data_envio < jobs[k].data_envio
                   \/ (jobs[j].data_envio = jobs[k].data_envio /\ j < k)]_vars

\* C4: the response of a submit is a success that names a row the INSERT
\* has just created, in status waiting, under the id the sequence gave it.
C4_SubmitCreatesRow ==
    resp.op = "submit"
        => /\ resp.kind = "ok"
           /\ resp.status = "waiting"
           /\ resp.id = nextId - 1
           /\ resp.id \in DOMAIN jobs
           /\ jobs[resp.id].status = "waiting"

\* C5: two rows never name the same audio file.
C5_DistinctPaths ==
    \A j, k \in DOMAIN jobs :
        j /= k => jobs[j].caminho_arquivo /= jobs[k].caminho_arquivo

\* C6: when processa_transcricao has raised for a job (the worker is in the
\* cooldown after a failed job), the row is in status error and its texto
\* is a non-empty text; every row in status error has such a texto.
C6_FailedJobHasDiagnostic ==
    /\ \A p \in Procs :
          wpc[p] = AfterJobError
             => /\ jobs[cur[p]].status = "error"
                /\ jobs[cur[p]].texto /= NullText
                /\ Len(jobs[cur[p]].texto) > 0
    /\ \A j \in DOMAIN jobs :
          jobs[j].status = "error"
             => jobs[j].texto /= NullText /\ Len(jobs[j].texto) > 0

\* The engine raised an exception with an empty message, and the job is in
\* error with the prefixed text.
C6_Witness ==
    /\ wpc[1] = AfterJobError
    /\ jobs[cur[1]].status = "error"
    /\ jobs[cur[1]].texto = "Erro: "

\* C7: whenever a job has failed (a row is in status error) and a job is
\* waiting, the waiting job is claimed later; the only claimer is the one
\* worker loop, which has no way to start over.
C7_NextJobClaimed ==
    \A j \in 1..MaxJobs :
        ((\E i \in DOMAIN jobs : jobs[i].status = "error") /\ StillWaiting(jobs, j))
            ~> (j \in DOMAIN jobs /\ jobs[j].status /= "waiting")

\* The worker is in the cooldown after a failed job while another job waits.
C7_Witness ==
    /\ wpc[1] = AfterJobError
    /\ jobs[cur[1]].status = "error"
    /\ Waiting(jobs) /= {}

\* C8: a status response holds texto exactly when the status is done or
\* error, and then it is the row's texto.
C8_TextIffTerminal ==
    (resp.op = "status" /\ resp.kind = "ok")
        => /\ (resp.texto /= Absent) <=> (resp.status \in {"done", "error"})
           /\ resp.texto /= Absent => resp.texto = jobs[resp.id].texto

\* C9: a status request answers NotFound exactly when no row has the id
\* asked for, and the request changes nothing in the database or on disk.
C9_UnknownIdNotFound ==
    [][resp'.op = "status"
          => /\ (resp'.kind = "NotFound") <=> (resp'.id \notin DOMAIN jobs)
             /\ resp'.kind \in {"NotFound", "ok"}
             /\ UNCHANGED <<table, jobs, nextId, files>>]_vars

\* NotFound was answered while the table holds rows.
C9_Witness ==
    /\ resp.op = "status"
    /\ resp.kind = "NotFound"
    /\ DOMAIN jobs /= {}

\* C10: a step that writes status done into a row changes the row only if
\* the row was in status processing.
C10_CompleteOnlyProcessing ==
    [][\A j \in DOMAIN jobs :
          (jobs'[j] /= jobs[j] /\ jobs'[j].status = "done")
             => jobs[j].status = "processing"]_vars

\* The one vocabulary of the status column.
Vocabulary == {"waiting", "processing", "done", "error"}

\* C22: every row's status is a word of the vocabulary, and the table has
\* refused no status a statement of the queue tried to write: no job
\* carries the diagnostic of a status UPDATE the CHECK constraint rejected.
C22_StatusAccepted ==
    \A j \in DOMAIN jobs :
        /\ jobs[j].status \in Vocabulary
        /\ jobs[j].texto /= ErroTexto("violates check constraint")

\* The diagnostics of a job whose inference raised or returned something
\* that is no result.
EngineFailureTexts ==
    {ErroTexto(o.msg) : o \in {e \in EngineOutcomes : e.kind = "raise"}}
        \cup {ErroTexto("Resultado da transcricao invalido ou vazio")}

\* C23: the step in which model.transcribe returns for a claimed job ends
\* in done with the text, language and duration of a valid result, or in
\* error with the diagnostic of an engine failure: a valid result never
\* ends in error.
C23_ValidResultDone ==
    [][\A p \in Procs :
          (wpc[p] = "inferring" /\ wpc'[p] /= "inferring")
             => LET row == jobs'[cur[p]] IN
                \/ /\ row.status = "done"
                   /\ \E o \in EngineOutcomes :
                         /\ o.kind = "ok"
                         /\ row.texto = o.text
                         /\ row.idioma = o.language
                         /\ row.duracao = o.duration
                \/ /\ row.status = "error"
                   /\ row.texto \in EngineFailureTexts]_vars

\* C30: when the worker prepares a claimed job and ffmpeg is not installed
\* or the audio file is not on disk, the step records the job as error with
\* a diagnostic and the worker does not enter model.transcribe.
C30_MissingInputFails ==
    [][(resp'.op = "prepare" /\ (~resp'.ffmpeg \/ ~resp'.exists))
          => /\ wpc'[resp'.proc] /= "inferring"
             /\ jobs'[resp'.id].status = "error"
             /\ jobs[resp'.id].status = "processing"
             /\ \E msg \in {"load failed", "Falha ao inicializar o modelo Whisper",
                             "ffmpeg nao encontrado no sistema",
                             "Arquivo nao encontrado"} :
                   jobs'[resp'.id].texto = ErroTexto(msg)]_vars

\* Two jobs failed before any inference, one for the decoder and one for
\* its file.
C30_Witness ==
    /\ \E j \in DOMAIN jobs :
          /\ jobs[j].status = "error"
          /\ jobs[j].texto = ErroTexto("ffmpeg nao encontrado no sistema")
    /\ \E j \in DOMAIN jobs :
          /\ jobs[j].status = "error"
          /\ jobs[j].texto = ErroTexto("Arquivo nao encontrado")
    /\ resp.op = "prepare"
    /\ ~resp.exists

\* ------------------------------------------------------------ api keys
\* The condition under which a presented key is to be accepted: a row holds
\* its hash, the row is active, its expires_at is null or not yet in the
\* past, and its allowed_ips is empty or the caller's address is one of its
\* entries or lies in one of its networks.
Usable(ks, key, ip, t) ==
    \E i \in DOMAIN ks :
        /\ ks[i].key_hash = HashApiKey(key)
        /\ ks[i].is_active
        /\ (ks[i].expires_at = NoTime \/ t <= ks[i].expires_at)
        /\ \/ ks[i].allowed_ips = <<>>
           \/ (ip /= NoIp /\ IpAllowed(ip, ks[i].allowed_ips))

\* C11: a call of validate_api_key goes on to accept the key (it reaches
\* the UPDATE of the usage statistics) exactly when the key is usable for
\* the caller: hash known, active, not expired, address allowed.
C11_AcceptIffUsable ==
    kresp.sel.called
        => ((kresp.sel.ret = "ok") <=> Usable(keys, kresp.sel.key, kresp.sel.ip, now))

\* C12: a call of validate_api_key without a caller address, for a key
\* whose allowed_ips is not empty, does not accept the key.
C12_NoIpRejected ==
    (/\ kresp.sel.called
     /\ kresp.sel.ip = NoIp
     /\ kresp.sel.id /= 0
     /\ keys[kresp.sel.id].allowed_ips /= <<>>)
        => kresp.sel.ret /= "ok"

\* The row a key was presented for is active and its expires_at is in the
\* past.
ActiveExpired(ks, key, t) ==
    \E i \in DOMAIN ks :
        /\ ks[i].key_hash = HashApiKey(key)
        /\ ks[i].is_active
        /\ ks[i].expires_at /= NoTime
        /\ t > ks[i].expires_at

\* C13: a call of validate_api_key that finds its key active and expired
\* goes to the deactivating UPDATE; when that validation has answered, the
\* answer is the rejection and the row's is_active is false; and a listing
\* shows every row's is_active as the row holds it.
C13_ExpiredDeactivates ==
    /\ (kresp.sel.called /\ ActiveExpired(keys, kresp.sel.key, now))
           => /\ kresp.sel.ret = "expired"
              /\ \E r \in Reqs : /\ req[r].pc = "deactivate"
                                  /\ req[r].id = kresp.sel.id
    /\ (~kresp.sel.called /\ kresp.sel.ret = "expired")
           => /\ kresp.kind = "HTTPException"
              /\ ~keys[kresp.sel.id].is_active
    /\ kresp.op = "list"
           => \A row \in kresp.rows : row.is_active = keys[row.id].is_active

\* The validation of an expired key has just answered, the row is inactive.
C13_Witness ==
    /\ ~kresp.sel.called
    /\ kresp.sel.ret = "expired"
    /\ kresp.kind = "HTTPException"
    /\ ~keys[kresp.sel.id].is_active

\* C14: no step removes a row of api_keys or sets is_active of an inactive
\* row back to true, and every call of validate_api_key that finds its
\* key's row inactive is rejected.
C14_DeactivationPermanent ==
    /\ [][\A i \in DOMAIN keys :
             ~keys[i].is_active => (i \in DOMAIN keys' /\ ~keys'[i].is_active)]_vars
    /\ [](\A i \in DOMAIN keys :
             (/\ kresp.sel.called
              /\ keys[i].key_hash = HashApiKey(kresp.sel.key)
              /\ ~keys[i].is_active)
                => (kresp.sel.ret = "inactive" /\ kresp.kind = "HTTPException"))

\* The key of an inactive row was presented, from an address its
\* allowed_ips admits, and rejected.
C14_Witness ==
    /\ kresp.sel.called
    /\ kresp.sel.ret = "inactive"
    /\ kresp.sel.ip /= NoIp
    /\ \/ keys[kresp.sel.id].allowed_ips = <<>>
       \/ IpAllowed(kresp.sel.ip, keys[kresp.sel.id].allowed_ips)

\* get_api_key has returned the key: the validation succeeded.
Accepted(k) == k.op = "auth" /\ k.kind = "return"

\* C15: the step in which a validation succeeds adds exactly one to the
\* use_count of its row and sets the row's last_used_at to the time of the
\* step, whatever other validations, revocations and expiries ran in
\* between; and no other step changes a use_count. So use_count grows by
\* N over N successful validations.
C15_UseCountedOnce ==
    [][/\ Accepted(kresp')
          => /\ keys'[kresp'.id].use_count = keys[kresp'.id].use_count + 1
             /\ keys'[kresp'.id].last_used_at = now
       /\ \A i \in DOMAIN keys :
             keys'[i].use_count /= keys[i].use_count
                => (Accepted(kresp') /\ kresp'.id = i)
       /\ \A i \in DOMAIN keys' \ DOMAIN keys : keys'[i].use_count = 0]_vars

\* A validation has succeeded and counted its use while another, which
\* read the same row before that, has yet to count its own.
C15_Witness ==
    /\ Accepted(kresp)
    /\ keys[kresp.id].use_count = 1
    /\ \E r \in Reqs : req[r].pc = "stats" /\ req[r].id = kresp.id

\* C16: revoke_api_key with an id no row has returns False and leaves every
\* row of api_keys as it was.
C16_RevokeUnknownId ==
    [][(kresp'.op = "revoke" /\ kresp'.id \notin DOMAIN keys)
          => (kresp'.result = FALSE /\ keys' = keys)]_vars

\* An id without a row was revoked while the table holds an active key.
C16_Witness ==
    /\ kresp.op = "revoke"
    /\ kresp.id \notin DOMAIN keys
    /\ kresp.result = FALSE
    /\ \E i \in DOMAIN keys : keys[i].is_active

\* C17: revoke_api_key on a row that is already inactive leaves the row
\* inactive and reports that no row was changed: it returns False.
C17_SecondRevokeNoChange ==
    [][(/\ kresp'.op = "revoke"
        /\ kresp'.id \in DOMAIN keys
        /\ ~keys[kresp'.id].is_active)
          => (keys' = keys /\ kresp'.result = FALSE)]_vars

\* The returns of validate_api_key for a key that is unknown, revoked,
\* expired, or presented from an address outside allowed_ips.
RejectionCauses == {"no row", "inactive", "expired", "ip"}

\* C18: whichever of the four causes made validate_api_key return None,
\* the caller of get_api_key gets the same exception: status code 401 with
\* the one detail text.
C18_UniformRejection ==
    (kresp.sel.ret \in RejectionCauses /\ kresp.op /= "select")
        => /\ kresp.kind = "HTTPException"
           /\ kresp.code = 401
           /\ kresp.detail = "API Key invalida ou expirada"

\* A key was refused for the caller's address.
C18_Witness ==
    /\ kresp.sel.ret = "ip"
    /\ kresp.op = "auth"
    /\ kresp.kind = "HTTPException"

\* ------------------------------------------------------------ the routes
\* Request r does a step of the body of route op.
RouteStep(r, op) ==
    /\ req[r].op = op
    /\ req[r].pc \in {"handler"} \cup SyncPcs
    /\ req'[r] /= req[r]

\* C19: the body of a route runs only for a request whose dependency
\* returned: a request stands at the body only from the step in which the
\* validation of the key it presented succeeded (the row with the key's
\* hash was read active and the use was counted); and a job is enqueued, a
\* job's status is answered and a synchronous transcription is begun or
\* answered only in a step of the body of its route.
C19_RoutesGated ==
    [][/\ \A r \in Reqs :
             (req'[r].pc = "stats" /\ req[r].pc /= "stats")
                => /\ kresp'.sel.called
                   /\ kresp'.sel.ret = "ok"
                   /\ kresp'.sel.id = req'[r].id
                   /\ keys[req'[r].id].key_hash = HashApiKey(kresp'.sel.key)
                   /\ keys[req'[r].id].is_active
       /\ \A r \in Reqs :
             (req'[r].pc = "handler" /\ req[r].pc /= "handler")
                => /\ req[r].pc = "stats"
                   /\ req'[r].op = req[r].op
                   /\ Accepted(kresp')
                   /\ kresp'.id = req[r].id
       /\ (DOMAIN jobs' /= DOMAIN jobs \/ nextId' /= nextId \/ files' /= files
              \/ resp'.op = "submit")
             => \E r \in Reqs : RouteStep(r, "async") /\ req[r].pc = "handler"
       /\ resp'.op = "status"
             => \E r \in Reqs : RouteStep(r, "status") /\ req[r].pc = "handler"
       /\ \A f \in temp' \ temp : RouteStep(f[1], "sync") /\ req[f[1]].pc = "handler"
       /\ kresp'.op = "sync" => \E r \in Reqs : RouteStep(r, "sync")]_vars

\* A job has been enqueued for a request whose key was counted as used.
C19_Witness ==
    /\ resp.op = "submit"
    /\ resp.kind = "ok"
    /\ \E i \in DOMAIN keys : keys[i].use_count > 0

\* C20: no step of the synchronous route, from the body's start to its
\* answer, successful or not, adds a row to transcricoes, changes a field
\* of a row, draws an id or writes into UPLOAD_DIR.
C20_SyncLeavesJobs ==
    [][(\E r \in Reqs : RouteStep(r, "sync"))
          => UNCHANGED <<table, jobs, nextId, files>>]_vars

\* A synchronous transcription has answered with its text while a job of
\* the queue is being processed.
C20_Witness ==
    /\ kresp.op = "sync"
    /\ kresp.kind = "return"
    /\ \E j \in DOMAIN jobs : jobs[j].status = "processing"

\* ------------------------------------------------------------ the
\* synchronous path and the model
\* C21: a temporary audio file is on disk only while the call of
\* execute_sync_transcription that created it is in its try block;
\* when the call has ended, on whichever path, its file is gone.
C21_NoTempLeftBehind ==
    \A f \in temp : req[f[1]].op = "sync" /\ req[f[1]].pc \in SyncPcs

\* The calls of model.transcribe that are running in the executor of the
\* API process: the worker's and the synchronous requests'.
Inferring ==
    {<<"worker", p>> : p \in {q \in {1} : wpc[q] = "inferring"}}
        \cup {<<"request", r>> : r \in {q \in Reqs : req[q].pc = "inferring"}}

\* C25: at most one call of model.transcribe runs at any time.
C25_OneInference == Cardinality(Inferring) <= 1

\* C27: a call of inicializar_modelo never counts more than MaxAttempts
\* attempts, and it ends: a worker that is inside the call leaves it.
C27_AtMostThreeAttempts ==
    /\ [](attempt[1] <= MaxAttempts)
    /\ (wpc[1] \in LoadPcs) ~> (wpc[1] \notin LoadPcs)

\* The third attempt was made and yielded no model; the loop is at its head
\* and ends.
C27_Witness ==
    /\ attempt[1] = MaxAttempts
    /\ wpc[1] \in {"load", "reload"}
    /\ model[1] = "none"

\* C28: the call of inicializar_modelo at the start of processar_fila
\* returns, and the loop starts polling, only with a model loaded.
C28_ReturnsOnlyLoaded ==
    [][(wpc[1] = "load" /\ wpc'[1] = "poll") => model'[1] = "loaded"]_vars

\* C29: a round of the loop of inicializar_modelo, which calls
\* whisper.load_model, is made only while no model is loaded.
C29_LoadsOnlyIfAbsent ==
    [][(/\ wpc[1] \in {"load", "reload"}
        /\ KeepTrying(attempt[1])
        /\ (attempt'[1] /= attempt[1] \/ wpc'[1] /= wpc[1]))
          => model[1] = "none"]_vars

\* The worker has entered the loop of processar_fila.
Started == wpc[1] \notin {"load", "load_wait", "dead"}

\* Where the worker is after an error: the sleep after a failed job, the
\* reload of the model and the sleep after it.
RecoveryPcs == {"sleep3", "reload", "reload_wait", "sleep10"}

\* C24: once in its loop the worker's task never ends, and after the
\* failure of a job, of a statement, of a close or of the model reload the
\* worker polls again.
C24_WorkerSurvives ==
    /\ [][Started => wpc'[1] /= "dead"]_vars
    /\ (wpc[1] \in RecoveryPcs) ~> (wpc[1] = "poll")

\* A job failed, a statement of the loop failed later and the reload gave
\* no model: the worker is in the sleep that precedes the next poll.
C24_Witness ==
    /\ wpc[1] = "sleep10"
    /\ model[1] = "none"
    /\ \E j \in DOMAIN jobs : jobs[j].status = "error"

\* C26: a job in processing reaches done or error.
C26_ClaimedJobEnds ==
    \A j \in 1..MaxFaultJobs :
        (j \in DOMAIN jobs /\ jobs[j].status = "processing")
            ~> (j \in DOMAIN jobs /\ jobs[j].status \in {"done", "error"})

\* C31: the columns of every row agree with its status: a waiting row has
\* no data_processamento, texto or duracao; every row in processing, done or
\* error has a data_processamento; only rows in done or error have a texto;
\* only rows in done have a duracao.
C31_FieldsAgree ==
    \A j \in DOMAIN jobs :
        LET row == jobs[j] IN
        /\ row.status = "waiting"
              => /\ row.data_processamento = NoTime
                 /\ row.texto = NullText
                 /\ row.duracao = NoTime
        /\ row.status \in {"processing", "done", "error"}
              => row.data_processamento /= NoTime
        /\ row.texto /= NullText => row.status \in {"done", "error"}
        /\ row.duracao /= NoTime => row.status = "done"

\* One job is done with its text and duration, another failed with a
\* diagnostic and no duration.
C31_Witness ==
    \E j, k \in DOMAIN jobs :
        /\ jobs[j].status = "done"
        /\ jobs[j].texto /= NullText
        /\ jobs[j].duracao /= NoTime
        /\ jobs[k].status = "error"
        /\ jobs[k].texto /= NullText
        /\ jobs[k].duracao = NoTime

\* C32: with the one worker running and statements and inferences that
\* return, every row in waiting is claimed: it leaves waiting, whatever was
\* submitted after it and whatever happened to the rows before it.
C32_NoStarvation ==
    \A j \in 1..MaxJobs :
        StillWaiting(jobs, j) ~> (j \in DOMAIN jobs /\ jobs[j].status /= "waiting")

\* A job waits with a later job behind it, while the worker sleeps after
\* it found the queue empty.
C32_Witness ==
    /\ \E j, k \in Waiting(jobs) : jobs[j].data_envio < jobs[k].data_envio
    /\ wpc[1] = "sleep5"

\* C33: with the one worker, at most one row is in processing.
C33_OneProcessing ==
    Cardinality({j \in DOMAIN jobs : jobs[j].status = "processing"}) <= 1

\* C34: the lambda of a synchronous request never finds the global `model`
\* absent when it calls model.transcribe.
C34_TranscribeOnLoaded ==
    \A r \in Reqs : req[r].pc /= "no_model"
====
